---- MODULE Spec2Model ----
(***************************************************************************)
(* A model of unseal (src/unseal.go): the commands decrypt, edit and wrap  *)
(* over one encrypted secrets file per group, the ephemeral files of the   *)
(* edit workflow, and the KEY=VALUE environment codec.                     *)
(*                                                                         *)
(* Text is a sequence of characters; a character is a one-token string.    *)
(***************************************************************************)
EXTENDS Integers, Sequences, FiniteSets, TLC

\* ------------------------------------------------------------------------
\* Characters
\* ------------------------------------------------------------------------
LF == "\n"
CR == "\r"
EQ == "="
SP == " "
NUL == "NUL"

\* The characters strings.TrimSpace removes that occur in the model.
WhiteSpace == {SP, LF, CR}

\* ------------------------------------------------------------------------
\* Bounds
\* ------------------------------------------------------------------------
\* Longest raw text given to parseEnvironment on its own.
MaxRaw == 6
\* Most KEY=VALUE pairs serialised for the round trip.
MaxPairs == 2
\* Bytes a pipe holds before a write to it blocks.
PipeCap == 1
\* Most bytes a child of system() writes, to stdout and stderr together.
MaxWrites == 3

\* ------------------------------------------------------------------------
\* strings package, as used by the program
\* ------------------------------------------------------------------------
\* strings.Index(s, c) + 1 for a one-character separator: 0 when absent.
Index(s, c) ==
    IF \E i \in 1..Len(s) : s[i] = c
    THEN CHOOSE i \in 1..Len(s) : s[i] = c /\ \A j \in 1..(i - 1) : s[j] # c
    ELSE 0

\* strings.TrimSpace(s)
TrimSpace(s) ==
    LET keep == {i \in 1..Len(s) : s[i] \notin WhiteSpace}
    IN  IF keep = {} THEN <<>>
        ELSE LET lo == CHOOSE i \in keep : \A j \in keep : i <= j
                 hi == CHOOSE i \in keep : \A j \in keep : j <= i
             IN  SubSeq(s, lo, hi)

\* strings.ReplaceAll(s, "\r\n", "\n"): left to right, non-overlapping.
RECURSIVE ReplaceAllCRLF(_)
ReplaceAllCRLF(s) ==
    IF s = <<>> THEN <<>>
    ELSE IF Len(s) >= 2 /\ s[1] = CR /\ s[2] = LF
         THEN <<LF>> \o ReplaceAllCRLF(SubSeq(s, 3, Len(s)))
         ELSE <<s[1]>> \o ReplaceAllCRLF(Tail(s))

\* strings.Split(s, sep) for a one-character sep: Count(sep)+1 pieces.
RECURSIVE Split(_, _)
Split(s, sep) ==
    LET i == Index(s, sep)
    IN  IF i = 0 THEN <<s>>
        ELSE <<SubSeq(s, 1, i - 1)>> \o Split(SubSeq(s, i + 1, Len(s)), sep)

\* strings.SplitN(s, "=", 2): at most two pieces, cut at the first sep.
SplitN2AtLast(s, sep) ==
    IF Index(s, sep) = 0 THEN <<s>>
    ELSE LET i == CHOOSE k \in 1..Len(s) : s[k] = sep /\ \A j \in (k + 1)..Len(s) : s[j] # sep
         IN  <<SubSeq(s, 1, i - 1), SubSeq(s, i + 1, Len(s))>>

SplitN2(s, sep) ==
    LET i == Index(s, sep)
    IN  IF i = 0 THEN <<s>>
        ELSE <<SubSeq(s, 1, i - 1), SubSeq(s, i + 1, Len(s))>>

\* ------------------------------------------------------------------------
\* map[string]string
\* ------------------------------------------------------------------------
EmptyMap == [k \in {} |-> <<>>]

\* vars[key] = val
MapSet(m, key, val) ==
    [k \in DOMAIN m \cup {key} |-> IF k = key THEN val ELSE m[k]]

\* ------------------------------------------------------------------------
\* EnvironmentCodec
\* ------------------------------------------------------------------------
\* The body of the loop of parseEnvironment for one line v.
ParseLineFirstWins(vars, v) ==
    IF v = <<>> THEN vars
    ELSE LET splitVar == SplitN2(v, EQ)
         IN  IF Len(splitVar) > 1 /\ splitVar[1] \notin DOMAIN vars
             THEN MapSet(vars, splitVar[1], splitVar[2])
             ELSE vars

ParseLine(vars, v) ==
    IF v = <<>> THEN vars
    ELSE LET splitVar == SplitN2(v, EQ)
         IN  IF Len(splitVar) > 1
             THEN MapSet(vars, splitVar[1], splitVar[2])
             ELSE vars

RECURSIVE ParseLines(_, _)
ParseLines(vars, lines) ==
    IF lines = <<>> THEN vars
    ELSE ParseLines(ParseLine(vars, Head(lines)), Tail(lines))

parseEnvironment(raw) ==
    ParseLines(EmptyMap, Split(ReplaceAllCRLF(raw), LF))

\* ------------------------------------------------------------------------
\* Inputs of an invocation
\* ------------------------------------------------------------------------
\* One slot per process that may run the program at the same time.
Procs == {1, 2}

\* -group values: the empty default and one named group.
Groups == {"", "ci"}

\* -cmd values; "bogus" stands for any unknown command.
Cmds == {"decrypt", "edit", "wrap", "bogus"}

\* flag.Args(): the empty vector and one program with no arguments.
ArgVectors == {<<>>, <<"env">>}

\* Plaintexts an editor may leave behind (and a store may hold at the start).
Texts ==
    { <<>>,
      <<"A", EQ, "1", LF, "B", EQ, "2">>,
      <<SP, "A", EQ, "2", CR, LF>>,
      <<EQ, "x", LF, "C", EQ, "y", EQ, "z">>,
      <<"B", EQ, NUL>> }

\* Environments the process may inherit.
Envs ==
    { EmptyMap,
      (<<"A">> :> <<"0">>) @@ (<<"D">> :> <<"4">>) }

\* ------------------------------------------------------------------------
\* Files
\* ------------------------------------------------------------------------
mode == 384          \* 0600
createPerm == 438    \* 0666, the permission os.Create asks for

\* The mode of a file os.Create made: createPerm less the bits of the umask,
\* here for the umasks 000, 022 and 077.
CreatedModes == {createPerm, 420, mode}

\* What gpg writes for a plaintext: an armored message only gpg can open.
Encrypt(text) == [fmt |-> "gpg", text |-> text]
\* The bytes of an interrupted write: no valid message.
Truncated == [fmt |-> "trunc", text |-> <<>>]

\* The store file and the ephemeral ciphertext file.
NoFile == [exists |-> FALSE, body |-> Truncated]
FileOf(body) == [exists |-> TRUE, body |-> body]

\* The ephemeral plaintext file.
NoTmp == [exists |-> FALSE, mode |-> 0, text |-> <<>>]

Prefixes(s) == {SubSeq(s, 1, n) : n \in 0..(Len(s) - 1)} \cup {<<>>}

\* ------------------------------------------------------------------------
\* State
\* ------------------------------------------------------------------------
VARIABLES
    store,      \* store[g]: the file $HOME/.secrets/<g>.gpg
    tmp,        \* tmp[p]: the ephemeral plaintext file of p's current run
    tmpEnc,     \* tmpEnc[p]: the ephemeral ciphertext file <tmp>.gpg of that run
    env,        \* env[p]: the environment of process p
    childEnv,   \* childEnv[p]: the environment the wrapped child was given
    proc,       \* proc[p]: flags, locals, output and position of process p
    prev,       \* prev[p]: summary of the run that ended before this one
    raw,        \* codec: the text under parse
    pairs,      \* codec: the pairs serialised into raw
    parsed,     \* codec: parseEnvironment(raw)
    cpc,        \* codec: position
    sysCall,    \* system(): position and captured output of the caller
    child,      \* system(): the child process and the writes it has left
    pipeBuf     \* system(): bytes waiting in the stdout and stderr pipes

fsVars == <<store, tmp, tmpEnc>>
procVars == <<env, childEnv, proc, prev>>
codecVars == <<raw, pairs, parsed, cpc>>
pipeVars == <<sysCall, child, pipeBuf>>
vars == <<store, tmp, tmpEnc, env, childEnv, proc, prev, raw, pairs, parsed, cpc,
          sysCall, child, pipeBuf>>

Msg(kind, text) == [msg |-> kind, text |-> text]

IdleProc ==
    [ pc |-> "idle", help |-> FALSE, cmd |-> "wrap", group |-> "",
      execargs |-> <<>>, contents |-> <<>>, edited |-> <<>>, byteArr |-> Truncated,
      encErr |-> FALSE, exit |-> 0, stdout |-> <<>>, stderr |-> <<>>,
      trace |-> <<>>, inherited |-> EmptyMap, injected |-> EmptyMap,
      store0 |-> [g \in Groups |-> NoFile] ]

NoRun == [cmd |-> "none", edited |-> <<>>, injected |-> EmptyMap]

P(p) == proc[p]

\* os.Exit(code) after printing kind on stream fd.
ExitWith(r, fd, kind, code) ==
    [r EXCEPT !.pc = "done", !.exit = code, ![fd] = Append(@, Msg(kind, <<>>))]

\* main returns: exit status 0.
Return(r) == [r EXCEPT !.pc = "done", !.exit = 0]

Did(r, op) == [r EXCEPT !.trace = Append(@, op)]

\* ------------------------------------------------------------------------
\* Process start and dispatch
\* ------------------------------------------------------------------------
\* What a later run is compared with: the text a successful edit installed
\* and the pairs a successful wrap injected.
Summary(r) ==
    IF r.pc = "done" /\ r.exit = 0 /\ r.cmd \in {"edit", "wrap"} /\ ~r.help
    THEN [cmd |-> r.cmd, edited |-> r.edited, injected |-> r.injected]
    ELSE NoRun

\* The command lines told apart: flags the chosen command never reads are
\* left at their defaults.
Invocations ==
    {[help |-> TRUE, cmd |-> "wrap", group |-> "", execargs |-> <<>>, environ |-> EmptyMap]}
    \cup {[help |-> FALSE, cmd |-> "bogus", group |-> "", execargs |-> <<>>,
           environ |-> EmptyMap]}
    \cup {[help |-> FALSE, cmd |-> c, group |-> g, execargs |-> <<>>, environ |-> EmptyMap] :
             c \in {"decrypt", "edit"}, g \in Groups}
    \cup {[help |-> FALSE, cmd |-> "wrap", group |-> g, execargs |-> a, environ |-> e] :
             g \in Groups, a \in ArgVectors, e \in Envs}

\* init(): a fresh process with its flags parsed. Nothing is kept from the
\* run before it but the store; the ephemeral files of this run get a fresh
\* random name, under which nothing exists yet.
Invoke(p) ==
    /\ P(p).pc \in {"idle", "done"}
    /\ \E i \in Invocations :
          /\ proc' = [proc EXCEPT ![p] =
                 [IdleProc EXCEPT !.pc = "main", !.help = i.help, !.cmd = i.cmd,
                                  !.group = i.group, !.execargs = i.execargs,
                                  !.inherited = i.environ, !.store0 = store]]
          /\ env' = [env EXCEPT ![p] = i.environ]
    /\ prev' = [prev EXCEPT ![p] = Summary(P(p))]
    /\ childEnv' = [childEnv EXCEPT ![p] = EmptyMap]
    /\ tmp' = [tmp EXCEPT ![p] = NoTmp]
    /\ tmpEnc' = [tmpEnc EXCEPT ![p] = NoFile]
    /\ UNCHANGED <<store, codecVars, pipeVars>>

\* main()
Main(p) ==
    /\ P(p).pc = "main"
    /\ proc' = [proc EXCEPT ![p] =
          IF P(p).help THEN Return([@ EXCEPT !.stdout = Append(@, Msg("Help", <<>>))])
          ELSE IF P(p).cmd \in {"decrypt", "edit", "wrap"} THEN [@ EXCEPT !.pc = P(p).cmd]
          ELSE Return([@ EXCEPT !.stdout = Append(Append(@, Msg("UnknownCommand", <<>>)),
                                                   Msg("Help", <<>>))])]
    /\ UNCHANGED <<fsVars, env, childEnv, prev, codecVars, pipeVars>>

\* ------------------------------------------------------------------------
\* SecretsStore
\* ------------------------------------------------------------------------
\* fileExists(path): any Lstat error reads as "does not exist".
fileExists(f) == f.exists

\* The file at secretsFile, the path init() builds from the group.
SecretsFile(r) == store[r.group]

\* ensureGroup(): the process after the call (exited when the group is empty).
ensureGroupSkipped(r) == r

ensureGroup(r) ==
    IF r.group = "" THEN ExitWith(r, "stdout", "GroupRequired", 1) ELSE r

\* ensureSecrets(): ensureGroup, then one Lstat of the store path.
ensureSecretsNoStat(r) ==
    LET g == ensureGroup(r)
    IN  IF g.pc = "done" THEN g ELSE Did(g, "stat")

ensureSecrets(r) ==
    LET g == ensureGroup(r)
    IN  IF g.pc = "done" THEN g
        ELSE IF ~fileExists(SecretsFile(g))
             THEN ExitWith(Did(g, "stat"), "stdout", "StoreNotFound", 1)
             ELSE Did(g, "stat")

\* What the caller of decryptFile does with the string it returns.
AfterDecryptFile(r, text) ==
    CASE r.cmd = "decrypt" ->
            Return([r EXCEPT !.stdout = Append(@, Msg("Plaintext", text))])
      [] r.cmd = "edit" -> [r EXCEPT !.contents = text, !.pc = "writeTmpFile"]
      [] r.cmd = "wrap" -> [r EXCEPT !.contents = text, !.pc = "insertEnvironment"]

\* decrypt(): ensureSecrets, then decryptFile.
Decrypt(p) ==
    /\ P(p).pc = "decrypt"
    /\ proc' = [proc EXCEPT ![p] =
          LET s == ensureSecrets(@)
          IN  IF s.pc = "done" THEN s ELSE [s EXCEPT !.pc = "decryptFile"]]
    /\ UNCHANGED <<fsVars, env, childEnv, prev, codecVars, pipeVars>>

\* gpg -d path: fails on a missing or invalid message and whenever the
\* passphrase is not given; otherwise its stdout is the plaintext.
GpgCanDecrypt(f) == f.exists /\ f.body.fmt = "gpg"

\* decryptFile()
decryptFileNoTrim(r, ok) ==
    IF ~fileExists(SecretsFile(r)) THEN AfterDecryptFile(Did(r, "stat"), <<>>)
    ELSE IF ~ok
         THEN ExitWith(Did(Did(r, "stat"), "gpg_d"), "stderr", "DecryptFailed", 1)
         ELSE AfterDecryptFile(Did(Did(r, "stat"), "gpg_d"), SecretsFile(r).body.text)

decryptFile(r, ok) ==
    IF ~fileExists(SecretsFile(r)) THEN AfterDecryptFile(Did(r, "stat"), <<>>)
    ELSE IF ~ok
         THEN ExitWith(Did(Did(r, "stat"), "gpg_d"), "stderr", "DecryptFailed", 1)
         ELSE AfterDecryptFile(Did(Did(r, "stat"), "gpg_d"),
                               TrimSpace(SecretsFile(r).body.text))

DecryptFile(p) ==
    /\ P(p).pc = "decryptFile"
    /\ \E ok \in BOOLEAN :
          /\ ok => GpgCanDecrypt(SecretsFile(P(p)))
          /\ proc' = [proc EXCEPT ![p] = decryptFile(@, ok)]
    /\ UNCHANGED <<fsVars, env, childEnv, prev, codecVars, pipeVars>>

\* ------------------------------------------------------------------------
\* EditWorkflow
\* ------------------------------------------------------------------------
\* edit(), up to the call of writeTmpFile.
Edit(p) ==
    /\ P(p).pc = "edit"
    /\ proc' = [proc EXCEPT ![p] =
          LET g == ensureGroup(@)
          IN  IF g.pc = "done" THEN g
              ELSE IF fileExists(SecretsFile(g))
                   THEN [Did(g, "stat") EXCEPT !.pc = "decryptFile"]
                   ELSE [Did(g, "stat") EXCEPT !.pc = "writeTmpFile"]]
    /\ UNCHANGED <<fsVars, env, childEnv, prev, codecVars, pipeVars>>

\* writeTmpFile: os.Create. On an error edit exits; no file was made.
TmpCreate(p) ==
    /\ P(p).pc = "writeTmpFile"
    /\ \E ok \in BOOLEAN, m \in CreatedModes :
          IF ok
          THEN /\ tmp' = [tmp EXCEPT ![p] =
                      [exists |-> TRUE, mode |-> m, text |-> <<>>]]
               /\ proc' = [proc EXCEPT ![p] = [Did(@, "create") EXCEPT !.pc = "chmod"]]
          ELSE /\ proc' = [proc EXCEPT ![p] =
                      ExitWith(Did(@, "create"), "stdout", "TempFileError", 1)]
               /\ UNCHANGED tmp
    /\ UNCHANGED <<store, tmpEnc, env, childEnv, prev, codecVars, pipeVars>>

\* writeTmpFile: f.Chmod(mode). On an error the file is closed, not removed.
TmpChmod(p) ==
    /\ P(p).pc = "chmod"
    /\ \E ok \in BOOLEAN :
          IF ok
          THEN /\ tmp' = [tmp EXCEPT ![p].mode = mode]
               /\ proc' = [proc EXCEPT ![p] = [Did(@, "chmod") EXCEPT !.pc = "writeString"]]
          ELSE /\ proc' = [proc EXCEPT ![p] =
                      ExitWith(Did(@, "chmod"), "stdout", "TempFileError", 1)]
               /\ UNCHANGED tmp
    /\ UNCHANGED <<store, tmpEnc, env, childEnv, prev, codecVars, pipeVars>>

\* writeTmpFile: f.WriteString(contents). On an error some prefix was
\* written and the file is closed, not removed.
TmpWrite(p) ==
    /\ P(p).pc = "writeString"
    /\ \/ /\ tmp' = [tmp EXCEPT ![p].text = P(p).contents]
          /\ proc' = [proc EXCEPT ![p] = [Did(@, "write") EXCEPT !.pc = "editFile"]]
       \/ /\ \E t \in Prefixes(P(p).contents) : tmp' = [tmp EXCEPT ![p].text = t]
          /\ proc' = [proc EXCEPT ![p] =
                 ExitWith(Did(@, "write"), "stdout", "TempFileError", 1)]
    /\ UNCHANGED <<store, tmpEnc, env, childEnv, prev, codecVars, pipeVars>>

\* What edit does when editFile returns an error: it exits at once.
AfterEditorError(r) == ExitWith(r, "stderr", "EditFailed", 1)

\* editFile(file.Name()): the editor runs on the file with inherited stdio
\* and leaves any text in it; a failed editor may have saved before failing.
EditFile(p) ==
    /\ P(p).pc = "editFile"
    /\ \E ok \in BOOLEAN, t \in Texts \cup {tmp[p].text} :
          /\ tmp' = [tmp EXCEPT ![p].text = t]
          /\ proc' = [proc EXCEPT ![p] =
                 IF ok THEN [Did(@, "editor") EXCEPT !.pc = "gpg", !.edited = t]
                 ELSE AfterEditorError([Did(@, "editor") EXCEPT !.edited = t])]
    /\ UNCHANGED <<store, tmpEnc, env, childEnv, prev, codecVars, pipeVars>>

\* gpg --armor --cipher-algo AES256 -c -o tmpEnc file.Name()
GpgEncrypt(p) ==
    /\ P(p).pc = "gpg"
    /\ \/ /\ tmp[p].exists
          /\ tmpEnc' = [tmpEnc EXCEPT ![p] = FileOf(Encrypt(tmp[p].text))]
          /\ proc' = [proc EXCEPT ![p] =
                 [Did(@, "gpg_c") EXCEPT !.pc = "cleanup", !.encErr = FALSE]]
       \/ /\ \E f \in {NoFile, FileOf(Truncated)} : tmpEnc' = [tmpEnc EXCEPT ![p] = f]
          /\ proc' = [proc EXCEPT ![p] =
                 [Did(@, "gpg_c") EXCEPT !.pc = "cleanup", !.encErr = TRUE]]
    /\ UNCHANGED <<store, tmp, env, childEnv, prev, codecVars, pipeVars>>

\* The cleanup closure: file.Close(), os.Remove(file.Name()) and the leak
\* warning when Remove returns an error. removed: whether Remove succeeded.
cleanupSilent(r, removed) == Did(Did(r, "close"), "remove_tmp")

cleanup(r, removed) ==
    IF removed THEN Did(Did(r, "close"), "remove_tmp")
    ELSE [Did(Did(r, "close"), "remove_tmp")
             EXCEPT !.stderr = Append(@, Msg("CleanupFailed", <<>>))]

\* os.Remove can succeed only on a file that exists.
RemoveOutcomes(f) == IF f.exists THEN BOOLEAN ELSE {FALSE}

\* edit(): cleanup() right after gpg returned, then the check of its error.
CleanupThenInstall(p) ==
    /\ P(p).pc = "cleanup"
    /\ \E removed \in RemoveOutcomes(tmp[p]) :
          /\ tmp' = [tmp EXCEPT ![p] = IF removed THEN NoTmp ELSE @]
          /\ proc' = [proc EXCEPT ![p] = [cleanup(@, removed) EXCEPT !.pc = "copyFile"]]
    /\ UNCHANGED <<store, tmpEnc, env, childEnv, prev, codecVars, pipeVars>>

CleanupLeftForLater(p) ==
    /\ P(p).pc = "cleanup"
    /\ proc' = [proc EXCEPT ![p] =
          IF @.encErr THEN ExitWith(@, "stderr", "EncryptFailed", 1)
          ELSE [@ EXCEPT !.pc = "copyFile"]]
    /\ UNCHANGED <<fsVars, env, childEnv, prev, codecVars, pipeVars>>

CleanupDirtyCheck(p) ==
    /\ P(p).pc = "cleanup"
    /\ \E removed \in RemoveOutcomes(tmp[p]) :
          /\ tmp' = [tmp EXCEPT ![p] = IF removed THEN NoTmp ELSE @]
          /\ proc' = [proc EXCEPT ![p] =
                 LET c == cleanup(@, removed)
                 IN  IF c.encErr THEN ExitWith(c, "stderr", "EncryptFailed", 1)
                     ELSE IF c.edited = c.contents THEN Return(c)
                     ELSE [c EXCEPT !.pc = "copyFile"]]
    /\ UNCHANGED <<store, tmpEnc, env, childEnv, prev, codecVars, pipeVars>>

Cleanup(p) ==
    /\ P(p).pc = "cleanup"
    /\ \E removed \in RemoveOutcomes(tmp[p]) :
          /\ tmp' = [tmp EXCEPT ![p] = IF removed THEN NoTmp ELSE @]
          /\ proc' = [proc EXCEPT ![p] =
                 LET c == cleanup(@, removed)
                 IN  IF c.encErr THEN ExitWith(c, "stderr", "EncryptFailed", 1)
                     ELSE [c EXCEPT !.pc = "copyFile"]]
    /\ UNCHANGED <<store, tmpEnc, env, childEnv, prev, codecVars, pipeVars>>

\* ------------------------------------------------------------------------
\* Atomic install: copyFile(tmpEnc, secretsFile)
\* ------------------------------------------------------------------------
\* copyFile: os.Rename(oldpath, newpath); on success copyFile and edit return.
CopyRenameKeepsNewer(p) ==
    /\ P(p).pc = "copyFile"
    /\ \/ /\ tmpEnc[p].exists
          /\ store' = IF store[P(p).group] = P(p).store0[P(p).group]
                      THEN [store EXCEPT ![P(p).group] = tmpEnc[p]]
                      ELSE store
          /\ tmpEnc' = [tmpEnc EXCEPT ![p] = NoFile]
          /\ proc' = [proc EXCEPT ![p] = Return(Did(@, "rename"))]
       \/ /\ proc' = [proc EXCEPT ![p] = [Did(@, "rename") EXCEPT !.pc = "readFile"]]
          /\ UNCHANGED <<store, tmpEnc>>
    /\ UNCHANGED <<tmp, env, childEnv, prev, codecVars, pipeVars>>

CopyRename(p) ==
    /\ P(p).pc = "copyFile"
    /\ \/ /\ tmpEnc[p].exists
          /\ store' = [store EXCEPT ![P(p).group] = tmpEnc[p]]
          /\ tmpEnc' = [tmpEnc EXCEPT ![p] = NoFile]
          /\ proc' = [proc EXCEPT ![p] = Return(Did(@, "rename"))]
       \/ /\ proc' = [proc EXCEPT ![p] = [Did(@, "rename") EXCEPT !.pc = "readFile"]]
          /\ UNCHANGED <<store, tmpEnc>>
    /\ UNCHANGED <<tmp, env, childEnv, prev, codecVars, pipeVars>>

\* copyFile: ioutil.ReadFile(oldpath); on an error copyFile returns it.
CopyRead(p) ==
    /\ P(p).pc = "readFile"
    /\ \/ /\ tmpEnc[p].exists
          /\ proc' = [proc EXCEPT ![p] =
                 [Did(@, "read_enc") EXCEPT !.pc = "writeFile", !.byteArr = tmpEnc[p].body]]
       \/ proc' = [proc EXCEPT ![p] = [Did(@, "read_enc") EXCEPT !.pc = "installFailed"]]
    /\ UNCHANGED <<fsVars, env, childEnv, prev, codecVars, pipeVars>>

\* The file at newpath after a failed ioutil.WriteFile: untouched when the
\* open failed, cut short when the open truncated it and the write failed.
FailedWrite(f) == {f, FileOf(Truncated)}

\* What a failed WriteFile followed by os.Remove(newpath) leaves at newpath:
\* Remove is best-effort, so the file is gone or stays as the write left it.
AfterFailedCopy(f) ==
    UNION {IF w.exists THEN {w, NoFile} ELSE {w} : w \in FailedWrite(f)}

\* copyFile: ioutil.WriteFile(newpath, byteArr, mode), then os.Remove of the
\* source when it succeeded and of the destination when it failed.
CopyWriteSwallowsError(p) ==
    /\ P(p).pc = "writeFile"
    /\ \/ /\ store' = [store EXCEPT ![P(p).group] = FileOf(P(p).byteArr)]
          /\ \E removed \in RemoveOutcomes(tmpEnc[p]) :
                tmpEnc' = [tmpEnc EXCEPT ![p] = IF removed THEN NoFile ELSE @]
          /\ proc' = [proc EXCEPT ![p] =
                 Return(Did(Did(@, "write_store"), "remove_enc"))]
       \/ /\ \E f \in AfterFailedCopy(store[P(p).group]) :
                store' = [store EXCEPT ![P(p).group] = f]
          /\ proc' = [proc EXCEPT ![p] =
                 Return(Did(Did(@, "write_store"), "remove_store"))]
          /\ UNCHANGED tmpEnc
    /\ UNCHANGED <<tmp, env, childEnv, prev, codecVars, pipeVars>>

CopyWrite(p) ==
    /\ P(p).pc = "writeFile"
    /\ \/ /\ store' = [store EXCEPT ![P(p).group] = FileOf(P(p).byteArr)]
          /\ \E removed \in RemoveOutcomes(tmpEnc[p]) :
                tmpEnc' = [tmpEnc EXCEPT ![p] = IF removed THEN NoFile ELSE @]
          /\ proc' = [proc EXCEPT ![p] =
                 Return(Did(Did(@, "write_store"), "remove_enc"))]
       \/ /\ \E f \in AfterFailedCopy(store[P(p).group]) :
                store' = [store EXCEPT ![P(p).group] = f]
          /\ proc' = [proc EXCEPT ![p] =
                 [Did(Did(@, "write_store"), "remove_store") EXCEPT !.pc = "installFailed"]]
          /\ UNCHANGED tmpEnc
    /\ UNCHANGED <<tmp, env, childEnv, prev, codecVars, pipeVars>>

\* edit(): copyFile returned an error: the message, cleanup() again, exit 1.
InstallFailed(p) ==
    /\ P(p).pc = "installFailed"
    /\ \E removed \in RemoveOutcomes(tmp[p]) :
          /\ tmp' = [tmp EXCEPT ![p] = IF removed THEN NoTmp ELSE @]
          /\ proc' = [proc EXCEPT ![p] =
                 [cleanup([@ EXCEPT !.stderr = Append(@, Msg("ReplaceFailed", <<>>))],
                          removed)
                     EXCEPT !.pc = "done", !.exit = 1]]
    /\ UNCHANGED <<store, tmpEnc, env, childEnv, prev, codecVars, pipeVars>>

\* ------------------------------------------------------------------------
\* ProcessWrapper
\* ------------------------------------------------------------------------
\* wrap(), up to the call of decrypt().
WrapAnyArgs(p) ==
    /\ P(p).pc = "wrap"
    /\ proc' = [proc EXCEPT ![p] =
          LET s == ensureSecrets(@)
          IN  IF s.pc = "done" THEN s ELSE [s EXCEPT !.pc = "decrypt"]]
    /\ UNCHANGED <<fsVars, env, childEnv, prev, codecVars, pipeVars>>

Wrap(p) ==
    /\ P(p).pc = "wrap"
    /\ proc' = [proc EXCEPT ![p] =
          IF Len(@.execargs) < 1 THEN ExitWith(@, "stderr", "MissingCommand", 1)
          ELSE LET s == ensureSecrets(@)
               IN  IF s.pc = "done" THEN s ELSE [s EXCEPT !.pc = "decrypt"]]
    /\ UNCHANGED <<fsVars, env, childEnv, prev, codecVars, pipeVars>>

\* os.Setenv(key, val), its error dropped: EINVAL, and no change, for an
\* empty key, a key holding '=' or NUL, and a value holding NUL.
Holds(s, c) == \E i \in 1..Len(s) : s[i] = c

SetenvKeepsOld(e, key, val) ==
    IF key \in DOMAIN e THEN e ELSE MapSet(e, key, val)

Setenv(e, key, val) ==
    IF key = <<>> \/ Holds(key, EQ) \/ Holds(key, NUL) \/ Holds(val, NUL) THEN e
    ELSE MapSet(e, key, val)

\* insertEnvironment(vars): Setenv for every key, in the map's order.
RECURSIVE InsertKeys(_, _, _)
InsertKeys(e, m, keys) ==
    IF keys = {} THEN e
    ELSE LET key == CHOOSE k \in keys : TRUE
         IN  InsertKeys(Setenv(e, key, m[key]), m, keys \ {key})

insertEnvironment(e, m) == InsertKeys(e, m, DOMAIN m)

\* wrap(): insertEnvironment(parseEnvironment(decrypt()))
InsertEnvironment(p) ==
    /\ P(p).pc = "insertEnvironment"
    /\ LET m == parseEnvironment(P(p).contents)
       IN  /\ env' = [env EXCEPT ![p] = insertEnvironment(@, m)]
           /\ proc' = [proc EXCEPT ![p] =
                  [Did(@, "setenv") EXCEPT !.pc = "system", !.injected = m]]
    /\ UNCHANGED <<fsVars, childEnv, prev, codecVars, pipeVars>>

\* system(execargs[0], true, ...) as wrap sees it: the child did not start,
\* or it ran with the environment of the process and exited with 0 or not.
ChildOutcomes == {"ok", "nonzero", "nostart"}

ChildRan(r, outcome) ==
    CASE outcome = "nostart" -> Did(r, "start_failed")
      [] outcome = "nonzero" -> Did(Did(r, "spawn"), "exit_nonzero")
      [] outcome = "ok" -> Did(Did(r, "spawn"), "exit_0")

\* wrap(): what follows system(): an error is printed, and wrap returns.
AfterSystemExits(r, outcome) ==
    IF outcome = "ok" THEN Return(r) ELSE ExitWith(r, "stderr", "SpawnFailed", 1)

AfterSystem(r, outcome) ==
    Return(IF outcome = "ok" THEN r
           ELSE [r EXCEPT !.stderr = Append(@, Msg("SpawnFailed", <<>>))])

\* wrap(): system(execargs[0], true, ...): the child inherits the
\* environment; an error is printed and wrap returns all the same.
System(p) ==
    /\ P(p).pc = "system"
    /\ \E outcome \in ChildOutcomes :
          /\ childEnv' = [childEnv EXCEPT ![p] = IF outcome = "nostart" THEN @ ELSE env[p]]
          /\ proc' = [proc EXCEPT ![p] = AfterSystem(ChildRan(@, outcome), outcome)]
    /\ UNCHANGED <<fsVars, env, prev, codecVars, pipeVars>>

\* ------------------------------------------------------------------------
\* The program
\* ------------------------------------------------------------------------
InitFiles ==
    /\ store \in {f \in [Groups -> {NoFile} \cup {FileOf(Encrypt(t)) : t \in Texts}] :
                    f[""] = NoFile}
    /\ tmp = [p \in Procs |-> NoTmp]
    /\ tmpEnc = [p \in Procs |-> NoFile]

InitProcs ==
    /\ env = [p \in Procs |-> EmptyMap]
    /\ childEnv = [p \in Procs |-> EmptyMap]
    /\ proc = [p \in Procs |-> IdleProc]
    /\ prev = [p \in Procs |-> NoRun]

CodecOff ==
    /\ raw = <<>>
    /\ pairs = <<>>
    /\ parsed = EmptyMap
    /\ cpc = "off"

\* No call of system() is looked at on its own.
PipeOff ==
    /\ sysCall = [pc |-> "off", pipe |-> TRUE, stdout |-> 0, stderr |-> 0, err |-> FALSE]
    /\ child = [state |-> "none", todo |-> <<>>, all |-> <<>>]
    /\ pipeBuf = [out |-> 0, err |-> 0]

Init == InitFiles /\ InitProcs /\ CodecOff /\ PipeOff

Step(p) ==
    \/ Invoke(p)
    \/ Main(p)
    \/ Decrypt(p)
    \/ DecryptFile(p)
    \/ Edit(p)
    \/ TmpCreate(p)
    \/ TmpChmod(p)
    \/ TmpWrite(p)
    \/ EditFile(p)
    \/ GpgEncrypt(p)
    \/ Cleanup(p)
    \/ CopyRename(p)
    \/ CopyRead(p)
    \/ CopyWrite(p)
    \/ InstallFailed(p)
    \/ Wrap(p)
    \/ InsertEnvironment(p)
    \/ System(p)

\* One command per invocation, one invocation at a time.
Next == Step(1)

Spec == Init /\ [][Next]_vars

\* ------------------------------------------------------------------------
\* Two invocations of edit on one group at the same time
\* ------------------------------------------------------------------------
\* Both processes have parsed -cmd edit -group ci; nothing orders them.
InitConc ==
    /\ InitFiles
    /\ env = [p \in Procs |-> EmptyMap]
    /\ childEnv = [p \in Procs |-> EmptyMap]
    /\ proc = [p \in Procs |->
                  [IdleProc EXCEPT !.pc = "main", !.cmd = "edit", !.group = "ci",
                                   !.store0 = store]]
    /\ prev = [p \in Procs |-> NoRun]
    /\ CodecOff
    /\ PipeOff

EditStep(p) ==
    \/ Main(p)
    \/ Edit(p)
    \/ DecryptFile(p)
    \/ TmpCreate(p)
    \/ TmpChmod(p)
    \/ TmpWrite(p)
    \/ EditFile(p)
    \/ GpgEncrypt(p)
    \/ Cleanup(p)
    \/ CopyRename(p)
    \/ CopyRead(p)
    \/ CopyWrite(p)
    \/ InstallFailed(p)

NextConc == \E p \in Procs : EditStep(p)

SpecConc == InitConc /\ [][NextConc]_vars

\* ------------------------------------------------------------------------
\* The codec on its own: parseEnvironment applied to bounded inputs
\* ------------------------------------------------------------------------
CodecAlphabet == {"A", EQ, LF, CR, SP}

\* Scenario C: A=1\r\n\r\nB=2\r\n
ScenarioC == <<"A", EQ, "1", CR, LF, CR, LF, "B", EQ, "2", CR, LF>>

RawTexts == UNION {[1..n -> CodecAlphabet] : n \in 0..MaxRaw} \cup {ScenarioC}

\* Well-formed pairs: the key is not empty and holds no '=' and no newline,
\* the value holds no newline.
WellFormedKeys == {<<"A">>, <<"B">>, <<CR>>, <<SP, "A">>}
WellFormedValues == {<<>>, <<"1">>, <<"1", EQ, "2">>, <<CR>>, <<SP>>}
WellFormedPairs == WellFormedKeys \X WellFormedValues
PairSeqs == UNION {[1..n -> WellFormedPairs] : n \in 0..MaxPairs}

\* The lines KEY=VALUE joined with newlines.
RECURSIVE JoinPairs(_)
JoinPairs(ps) ==
    IF ps = <<>> THEN <<>>
    ELSE LET line == ps[1][1] \o <<EQ>> \o ps[1][2]
         IN  IF Len(ps) = 1 THEN line ELSE line \o <<LF>> \o JoinPairs(Tail(ps))

InitCodec ==
    /\ store = [g \in Groups |-> NoFile]
    /\ tmp = [p \in Procs |-> NoTmp]
    /\ tmpEnc = [p \in Procs |-> NoFile]
    /\ InitProcs
    /\ PipeOff
    /\ parsed = EmptyMap
    /\ \/ cpc = "raw" /\ raw \in RawTexts /\ pairs = <<>>
       \/ cpc = "pairs" /\ pairs \in PairSeqs /\ raw = <<>>

Serialize ==
    /\ cpc = "pairs"
    /\ raw' = JoinPairs(pairs)
    /\ cpc' = "serialized"
    /\ UNCHANGED <<fsVars, procVars, pairs, parsed, pipeVars>>

Parse ==
    /\ cpc \in {"raw", "serialized"}
    /\ parsed' = parseEnvironment(raw)
    /\ cpc' = IF cpc = "raw" THEN "parsedRaw" ELSE "parsedPairs"
    /\ UNCHANGED <<fsVars, procVars, raw, pairs, pipeVars>>

NextCodec == Serialize \/ Parse

SpecCodec == InitCodec /\ [][NextCodec]_vars

\* ------------------------------------------------------------------------
\* system(command, pipe, args...) and its child
\* ------------------------------------------------------------------------
\* What the child does: a sequence of one-byte writes, each to its stdout
\* or to its stderr, and then it exits, which closes both.
ChildPrograms == UNION {[1..n -> {"out", "err"}] : n \in 0..MaxWrites}

Count(s, fd) == Cardinality({i \in 1..Len(s) : s[i] = fd})

InitPipe ==
    /\ store = [g \in Groups |-> NoFile]
    /\ tmp = [p \in Procs |-> NoTmp]
    /\ tmpEnc = [p \in Procs |-> NoFile]
    /\ InitProcs
    /\ CodecOff
    /\ \E captured \in BOOLEAN :
          sysCall = [pc |-> "start", pipe |-> ~captured, stdout |-> 0, stderr |-> 0,
                     err |-> FALSE]
    /\ \E w \in ChildPrograms : child = [state |-> "none", todo |-> w, all |-> w]
    /\ pipeBuf = [out |-> 0, err |-> 0]

\* c.Start(): on an error system returns it at once.
SysStart ==
    /\ sysCall.pc = "start"
    /\ \/ /\ sysCall' = [sysCall EXCEPT !.pc = IF sysCall.pipe THEN "wait" ELSE "readStdout"]
          /\ child' = [child EXCEPT !.state = "running"]
       \/ /\ sysCall' = [sysCall EXCEPT !.pc = "returned", !.err = TRUE]
          /\ UNCHANGED child
    /\ UNCHANGED <<fsVars, procVars, codecVars, pipeBuf>>

\* The child writes its next byte: to the inherited stream when pipe is set,
\* else into the pipe, where the write blocks while the pipe is full.
ChildWrite ==
    /\ child.state = "running"
    /\ child.todo # <<>>
    /\ LET fd == Head(child.todo)
       IN  IF sysCall.pipe THEN UNCHANGED pipeBuf
           ELSE /\ pipeBuf[fd] < PipeCap
                /\ pipeBuf' = [pipeBuf EXCEPT ![fd] = @ + 1]
    /\ child' = [child EXCEPT !.todo = Tail(@)]
    /\ UNCHANGED <<fsVars, procVars, codecVars, sysCall>>

\* The child exits after its last write; its ends of the pipes close.
ChildExit ==
    /\ child.state = "running"
    /\ child.todo = <<>>
    /\ child' = [child EXCEPT !.state = "exited"]
    /\ UNCHANGED <<fsVars, procVars, codecVars, sysCall, pipeBuf>>

\* ioutil.ReadAll(stdoutPipe): takes what is in the pipe, blocks on an empty
\* pipe the child still holds open, ends at EOF; only then is stderr read.
ReadStdout ==
    /\ sysCall.pc = "readStdout"
    /\ \/ /\ pipeBuf.out > 0
          /\ sysCall' = [sysCall EXCEPT !.stdout = @ + pipeBuf.out]
          /\ pipeBuf' = [pipeBuf EXCEPT !.out = 0]
       \/ /\ pipeBuf.out = 0 /\ child.state = "exited"
          /\ sysCall' = [sysCall EXCEPT !.pc = "readStderr"]
          /\ UNCHANGED pipeBuf
    /\ UNCHANGED <<fsVars, procVars, codecVars, child>>

\* ioutil.ReadAll(stderrPipe)
ReadStderr ==
    /\ sysCall.pc = "readStderr"
    /\ \/ /\ pipeBuf.err > 0
          /\ sysCall' = [sysCall EXCEPT !.stderr = @ + pipeBuf.err]
          /\ pipeBuf' = [pipeBuf EXCEPT !.err = 0]
       \/ /\ pipeBuf.err = 0 /\ child.state = "exited"
          /\ sysCall' = [sysCall EXCEPT !.pc = "wait"]
          /\ UNCHANGED pipeBuf
    /\ UNCHANGED <<fsVars, procVars, codecVars, child>>

\* c.Wait(), and the return of stdout, stderr and the child's result.
SysWait ==
    /\ sysCall.pc = "wait"
    /\ child.state = "exited"
    /\ sysCall' = [sysCall EXCEPT !.pc = "returned"]
    /\ UNCHANGED <<fsVars, procVars, codecVars, child, pipeBuf>>

NextPipe ==
    \/ SysStart
    \/ ChildWrite
    \/ ChildExit
    \/ ReadStdout
    \/ ReadStderr
    \/ SysWait

\* The scheduler runs a process that can take a step.
SpecPipe == InitPipe /\ [][NextPipe]_vars /\ WF_vars(NextPipe)

\* ------------------------------------------------------------------------
\* Reference parser: the parsing rules stated as a property of the text
\* ------------------------------------------------------------------------
\* The text without every '\r' that a '\n' follows.
RefNormalize(s) ==
    LET kept == {i \in 1..Len(s) : ~(s[i] = CR /\ i < Len(s) /\ s[i + 1] = LF)}
        at(k) == CHOOSE i \in kept : Cardinality({j \in kept : j < i}) = k - 1
    IN  [k \in 1..Cardinality(kept) |-> s[at(k)]]

\* The lines of t: the maximal stretches free of '\n', each with its place.
RefLines(t) ==
    {[at |-> ft[1], line |-> SubSeq(t, ft[1], ft[2])] :
        ft \in {x \in (1..(Len(t) + 1)) \X (0..Len(t)) :
                   /\ x[2] >= x[1] - 1
                   /\ x[1] = 1 \/ t[x[1] - 1] = LF
                   /\ x[2] = Len(t) \/ t[x[2] + 1] = LF
                   /\ \A i \in x[1]..x[2] : t[i] # LF}}

RefBlank(l) == \A i \in 1..Len(l) : l[i] \in WhiteSpace
RefFirstEq(l) == CHOOSE i \in 1..Len(l) : l[i] = EQ /\ \A j \in 1..(i - 1) : l[j] # EQ
RefKey(l) == SubSeq(l, 1, RefFirstEq(l) - 1)
RefValue(l) == SubSeq(l, RefFirstEq(l) + 1, Len(l))

\* The lines that define a variable: not blank and holding an '='.
RefEntries(t) == {e \in RefLines(t) : ~RefBlank(e.line) /\ Holds(e.line, EQ)}

RefParse(text) ==
    LET es == RefEntries(RefNormalize(text))
        last(k) == CHOOSE e \in es :
                      /\ RefKey(e.line) = k
                      /\ \A f \in es : RefKey(f.line) = k => f.at <= e.at
    IN  [k \in {RefKey(e.line) : e \in es} |-> RefValue(last(k).line)]

\* The mapping a sequence of pairs stands for: the last pair of a key wins.
LastWins(ps) ==
    LET last(k) == CHOOSE i \in 1..Len(ps) :
                      ps[i][1] = k /\ \A j \in 1..Len(ps) : ps[j][1] = k => j <= i
    IN  [k \in {ps[i][1] : i \in 1..Len(ps)} |-> ps[last(k)][2]]

EndsInCR(v) == Len(v) > 0 /\ v[Len(v)] = CR

\* ------------------------------------------------------------------------
\* Claims
\* ------------------------------------------------------------------------
InTrace(r, op) == \E i \in 1..Len(r.trace) : r.trace[i] = op
Printed(r, fd, kind) == \E i \in 1..Len(r[fd]) : r[fd][i].msg = kind
Only(kind) == <<Msg(kind, <<>>)>>
Ran(p, c) == ~P(p).help /\ P(p).cmd = c /\ P(p).pc # "idle"
Ended(p, c) == Ran(p, c) /\ P(p).pc = "done"
InstallOps == {"rename", "read_enc", "write_store", "remove_enc", "remove_store"}
Installing(r) == \E i \in 1..Len(r.trace) : r.trace[i] \in InstallOps

\* C1: when an edit run has ended, in success or in any failure, the
\* ephemeral plaintext file of the run no longer exists.
C1_PlaintextGoneAtExit ==
    \A p \in Procs : Ended(p, "edit") => ~tmp[p].exists

\* C2: when the install step of an edit failed, the store file that existed
\* before the run is still there, byte for byte.
C2_StoreKeptOnFailedInstall ==
    \A p \in Procs :
        (Ended(p, "edit") /\ Printed(P(p), "stderr", "ReplaceFailed")
            /\ P(p).store0[P(p).group].exists)
        => store[P(p).group] = P(p).store0[P(p).group]

\* C3 as stated: after a failed encryption the edit run ends with the
\* encryption failure and exit status 1, no install step was attempted, the
\* store is untouched, and the plaintext ephemeral file is gone.
C3_EncryptFailureAsStated ==
    \A p \in Procs :
        (Ended(p, "edit") /\ InTrace(P(p), "gpg_c") /\ P(p).encErr)
        => /\ P(p).exit = 1
           /\ Printed(P(p), "stderr", "EncryptFailed")
           /\ ~Installing(P(p))
           /\ store = P(p).store0
           /\ ~tmp[p].exists

\* C3 amended: as C3, but of the plaintext ephemeral file only that its
\* cleanup has run: it is gone, or its deletion failed and the leak warning
\* was printed on standard error.
C3_EncryptFailure ==
    \A p \in Procs :
        (Ended(p, "edit") /\ InTrace(P(p), "gpg_c") /\ P(p).encErr)
        => /\ P(p).exit = 1
           /\ Printed(P(p), "stderr", "EncryptFailed")
           /\ ~Installing(P(p))
           /\ store = P(p).store0
           /\ InTrace(P(p), "remove_tmp")
           /\ ~tmp[p].exists \/ Printed(P(p), "stderr", "CleanupFailed")

\* C3 witness: an edit over an existing store ended on a failed encryption
\* with the plaintext file removed.
C3_Witness ==
    /\ Ended(1, "edit") /\ P(1).encErr /\ InTrace(P(1), "gpg_c")
    /\ P(1).store0["ci"].exists
    /\ ~tmp[1].exists

\* C4: with a non-empty group and no store file, decrypt and wrap end with
\* the store-not-found error and exit status 1 without running gpg, while
\* decryptFile returns the empty string without running gpg and without an
\* error, so that edit goes on from empty contents.
C4_AbsentStore ==
    \A p \in Procs :
        (P(p).group # "" /\ ~P(p).store0[P(p).group].exists) =>
        /\ (Ended(p, "decrypt") \/ (Ended(p, "wrap") /\ P(p).execargs # <<>>))
              => /\ P(p).exit = 1
                 /\ P(p).stdout = Only("StoreNotFound")
                 /\ ~InTrace(P(p), "gpg_d")
        /\ (Ran(p, "edit") /\ P(p).pc \notin {"main", "edit"})
              => /\ ~InTrace(P(p), "gpg_d")
                 /\ ~Printed(P(p), "stderr", "DecryptFailed")
                 /\ InTrace(P(p), "create") \/ P(p).pc = "writeTmpFile"
                 /\ P(p).contents = <<>>
        /\ (Ran(p, "edit") /\ P(p).pc = "edit" /\ ~store[P(p).group].exists)
              => \A ok \in BOOLEAN :
                    LET d == decryptFile(P(p), ok)
                    IN  /\ d.pc = "writeTmpFile"
                        /\ d.contents = <<>>
                        /\ ~InTrace(d, "gpg_d")
                        /\ d.stderr = <<>> /\ d.stdout = <<>>

\* C4 witness: an edit of a group without a store wrote its empty contents
\* to the ephemeral file and reached the editor.
C4_Witness ==
    /\ Ran(1, "edit") /\ P(1).group = "ci" /\ ~P(1).store0["ci"].exists
    /\ P(1).pc = "editFile" /\ tmp[1].exists /\ tmp[1].text = <<>>

\* C5: after an edit that ended in success the store file exists and holds
\* the encryption of exactly the text the editor left, whether or not a
\* store existed before; a decrypt that follows prints that text trimmed.
C5_EditThenDecrypt ==
    \A p \in Procs :
        /\ (Ended(p, "edit") /\ P(p).exit = 0)
              => /\ store[P(p).group].exists
                 /\ store[P(p).group].body = Encrypt(P(p).edited)
        /\ (Ended(p, "decrypt") /\ P(p).exit = 0 /\ prev[p].cmd = "edit")
              => P(p).stdout = <<Msg("Plaintext", TrimSpace(prev[p].edited))>>

\* C5 witness: an edit of a group without a store succeeded leaving a text
\* with surrounding white space, and the decrypt after it printed it trimmed.
C5_Witness ==
    /\ Ended(1, "decrypt") /\ P(1).exit = 0
    /\ prev[1].cmd = "edit" /\ prev[1].edited = <<SP, "A", EQ, "2", CR, LF>>
    /\ P(1).stdout = <<Msg("Plaintext", <<"A", EQ, "2">>)>>

\* C6: with an empty group, decrypt, edit and wrap (given a program) end
\* with the group-required error and exit status 1 before any operation on
\* the store or the system: no stat, no gpg, no ephemeral file, no editor,
\* no child.
C6_GroupRequired ==
    \A p \in Procs :
        (P(p).group = "" /\ ~P(p).help /\ P(p).pc # "idle"
            /\ (P(p).cmd = "wrap" => P(p).execargs # <<>>)
            /\ P(p).cmd \in {"decrypt", "edit", "wrap"})
        => /\ P(p).trace = <<>>
           /\ ~tmp[p].exists /\ ~tmpEnc[p].exists
           /\ store = P(p).store0
           /\ env[p] = P(p).inherited
           /\ P(p).pc \in {"main", P(p).cmd, "done"}
           /\ P(p).pc = "done"
                 => P(p).exit = 1 /\ P(p).stdout = Only("GroupRequired")

\* C6 witness: an edit with an empty group has ended.
C6_Witness ==
    /\ Ended(1, "edit") /\ P(1).group = ""
    /\ P(1).exit = 1

\* The environment with the pairs of m set over e.
Overlay(e, m) ==
    [k \in DOMAIN e \cup DOMAIN m |-> IF k \in DOMAIN m THEN m[k] ELSE e[k]]

\* The pairs of m that an environment can hold: the name is not empty and
\* neither name nor value holds a NUL.
Settable(m) ==
    [k \in {x \in DOMAIN m : x # <<>> /\ ~Holds(x, NUL) /\ ~Holds(m[x], NUL)} |-> m[k]]

\* The pairs in the store of a run: parse of the trimmed plaintext.
StorePairs(r) == parseEnvironment(TrimSpace(r.store0[r.group].body.text))

SpawnAfterInject(r) ==
    \A k \in 1..Len(r.trace) : r.trace[k] = "spawn" =>
        \E i, j \in 1..k : i < j /\ j < k /\ r.trace[i] = "gpg_d" /\ r.trace[j] = "setenv"

C8_ChildEnvAsStated ==
    \A p \in Procs : (Ran(p, "wrap") /\ InTrace(P(p), "spawn")) =>
        /\ childEnv[p] = Overlay(P(p).inherited, StorePairs(P(p)))
        /\ prev[p].cmd = "wrap" => P(p).injected = prev[p].injected

\* C8 amended: the child sees the inherited environment with every pair of
\* the parsed store that os.Setenv accepts (name not empty, no NUL in name or
\* value) set over it, other inherited variables unchanged; a wrap right
\* after a wrap injects the same pairs.
C8_ChildEnv ==
    \A p \in Procs : (Ran(p, "wrap") /\ InTrace(P(p), "spawn")) =>
        /\ childEnv[p] = Overlay(P(p).inherited, Settable(StorePairs(P(p))))
        /\ prev[p].cmd = "wrap" => P(p).injected = prev[p].injected

\* C8 witness: a wrap right after a wrap gave its child the store's A over
\* the inherited A, with the inherited D kept.
C8_Witness ==
    /\ Ended(1, "wrap") /\ InTrace(P(1), "spawn") /\ prev[1].cmd = "wrap"
    /\ P(1).inherited = (<<"A">> :> <<"0">>) @@ (<<"D">> :> <<"4">>)
    /\ childEnv[1] = (<<"A">> :> <<"1">>) @@ (<<"B">> :> <<"2">>) @@ (<<"D">> :> <<"4">>)

\* C9: parseEnvironment(raw) is the mapping of the reference parser for every
\* raw text: "\r\n" read as "\n", lines split on "\n", blank lines and lines
\* without '=' dropped, each line cut at its first '=' only, key and value
\* verbatim, the last line of a key winning; Scenario C gives {A: 1, B: 2}.
C9_ParseMatchesReference ==
    cpc \in {"parsedRaw", "parsedPairs"} =>
        /\ parsed = RefParse(raw)
        /\ raw = ScenarioC => parsed = (<<"A">> :> <<"1">>) @@ (<<"B">> :> <<"2">>)

\* C9 witness: Scenario C has been parsed into its two variables.
C9_Witness ==
    /\ cpc = "parsedRaw"
    /\ raw = ScenarioC
    /\ DOMAIN parsed = {<<"A">>, <<"B">>}

\* C10 as stated: parsing the joined lines of any well-formed pairs gives
\* back the pairs' mapping, the last pair of a repeated key winning.
C10_RoundTripAsStated ==
    cpc = "parsedPairs" => parsed = LastWins(pairs)

\* C10 amended: the round trip holds when, besides, no value ends in a
\* carriage return (joined to the next line it would form "\r\n").
C10_RoundTrip ==
    (cpc = "parsedPairs" /\ \A i \in 1..Len(pairs) : ~EndsInCR(pairs[i][2]))
        => parsed = LastWins(pairs)

\* C10 witness: two pairs of one key with different values, one holding an
\* '=', went through the round trip and the second value was kept.
C10_Witness ==
    /\ cpc = "parsedPairs"
    /\ pairs = << <<<<"A">>, <<"1">>>>, <<<<"A">>, <<"1", EQ, "2">>>> >>
    /\ parsed = (<<"A">> :> <<"1", EQ, "2">>)

\* C11: in an edit run, gpg -c is followed at once by the cleanup of the
\* plaintext file (close, remove), whether or not gpg succeeded, and no
\* install step starts or acts before that cleanup has run.
C11_CleanupBeforeInstall ==
    \A p \in Procs : Ran(p, "edit") =>
        LET t == P(p).trace
        IN  /\ \A i \in 1..Len(t) : t[i] = "gpg_c" =>
                  IF i = Len(t) THEN P(p).pc = "cleanup"
                  ELSE Len(t) >= i + 2 /\ t[i + 1] = "close" /\ t[i + 2] = "remove_tmp"
            /\ (P(p).pc \in {"copyFile", "readFile", "writeFile", "installFailed"}
                   \/ Installing(P(p)))
                  => \E j \in 1..Len(t) :
                        /\ t[j] = "remove_tmp"
                        /\ \A k \in 1..Len(t) : t[k] \in InstallOps => j < k

\* C11 witness: an edit is about to install, its plaintext file removed.
C11_Witness ==
    /\ Ran(1, "edit") /\ P(1).pc = "copyFile"
    /\ InTrace(P(1), "remove_tmp") /\ ~tmp[1].exists

\* C12: when the install step failed, the edit run ends with exit status 1
\* after reporting the install error, the deletion of the ephemeral
\* ciphertext file was attempted, and no partial write is at the store path.
C12_CiphertextCleanedOnFailedInstall ==
    \A p \in Procs :
        (Ended(p, "edit") /\ Printed(P(p), "stderr", "ReplaceFailed"))
        => /\ P(p).exit = 1
           /\ InTrace(P(p), "remove_enc")
           /\ store[P(p).group].exists => store[P(p).group].body # Truncated

\* C13: whenever the ephemeral plaintext file exists its mode is 0600; in
\* particular it holds no plaintext under another mode.
C13_TmpModeOwnerOnly ==
    \A p \in Procs : tmp[p].exists => tmp[p].mode = mode

\* C14: a failed deletion of the plaintext file is reported on standard
\* error and is not fatal: after a successful encryption the edit goes on to
\* the install, and its exit status is 1 exactly when the encryption or the
\* install failed, whatever the cleanup did.
C14_CleanupFailureNotFatal ==
    \A p \in Procs : Ran(p, "edit") =>
        /\ (InTrace(P(p), "remove_tmp") /\ tmp[p].exists)
              => Printed(P(p), "stderr", "CleanupFailed")
        /\ (InTrace(P(p), "remove_tmp") /\ ~P(p).encErr)
              => /\ P(p).pc \in {"copyFile", "readFile", "writeFile", "installFailed", "done"}
                 /\ P(p).pc = "done" => Installing(P(p))
        /\ (P(p).pc = "done" /\ InTrace(P(p), "gpg_c"))
              => P(p).exit = IF P(p).encErr \/ Printed(P(p), "stderr", "ReplaceFailed")
                             THEN 1 ELSE 0

\* C14 witness: an edit ended in success with its new ciphertext installed
\* although the plaintext file could not be deleted, and said so.
C14_Witness ==
    /\ Ended(1, "edit") /\ P(1).exit = 0
    /\ tmp[1].exists /\ Printed(P(1), "stderr", "CleanupFailed")
    /\ store["ci"].body = Encrypt(P(1).edited)

\* C15: in wrap, a child that could not be started or that exited non-zero
\* is reported on standard error and changes nothing else: once the store
\* was decrypted and injected, wrap returns with exit status 0.
C15_WrapIgnoresChildFailure ==
    \A p \in Procs : Ran(p, "wrap") =>
        /\ (InTrace(P(p), "start_failed") \/ InTrace(P(p), "exit_nonzero"))
              => /\ Printed(P(p), "stderr", "SpawnFailed")
                 /\ P(p).pc = "done" /\ P(p).exit = 0
        /\ (InTrace(P(p), "setenv") /\ P(p).pc = "done") => P(p).exit = 0
        /\ InTrace(P(p), "exit_0") => P(p).stderr = <<>>

\* C15 witness: a wrap whose child exited non-zero has returned.
C15_Witness ==
    /\ Ended(1, "wrap") /\ InTrace(P(1), "exit_nonzero")
    /\ P(1).exit = 0 /\ P(1).stderr = Only("SpawnFailed")

\* The operation that must have come before op in an edit run.
Requires(op) ==
    CASE op = "gpg_d" -> "stat"
      [] op = "create" -> "stat"
      [] op = "chmod" -> "create"
      [] op = "write" -> "chmod"
      [] op = "editor" -> "write"
      [] op = "gpg_c" -> "editor"
      [] op = "close" -> "gpg_c"
      [] op = "remove_tmp" -> "close"
      [] op = "rename" -> "remove_tmp"
      [] op = "read_enc" -> "rename"
      [] op = "write_store" -> "read_enc"
      [] op \in {"remove_enc", "remove_store"} -> "write_store"
      [] OTHER -> ""

\* No step of the edit before the install reported a failure.
EditStepsSucceeded(r) ==
    \A k \in {"GroupRequired", "DecryptFailed", "TempFileError"} :
        ~Printed(r, "stdout", k) /\ ~Printed(r, "stderr", k)
            /\ ~Printed(r, "stderr", "EditFailed") /\ ~Printed(r, "stderr", "EncryptFailed")

\* C16: an edit run goes through decrypt, ephemeral file, editor, encryption
\* and install in that order, none skipped and none repeated; the store is
\* written by the install step only; and the install runs exactly when every
\* step before it succeeded, whatever the edited text, changed or not.
C16_EditStages ==
    \A p \in Procs : Ran(p, "edit") =>
        LET r == P(p)
            t == P(p).trace
        IN  /\ \A j \in 1..Len(t) :
                  Requires(t[j]) # "" => \E i \in 1..(j - 1) : t[i] = Requires(t[j])
            /\ \A op \in {"gpg_d", "create", "editor", "gpg_c", "rename", "write_store"} :
                  Cardinality({i \in 1..Len(t) : t[i] = op}) <= 1
            /\ ~Installing(r) => store = r.store0
            /\ Installing(r) =>
                  /\ r.store0[r.group].exists => InTrace(r, "gpg_d")
                  /\ tmpEnc[p].exists => tmpEnc[p].body = Encrypt(r.edited)
            /\ r.pc = "done" => (Installing(r) <=> EditStepsSucceeded(r))

\* C16 witness: an edit that left the text as it was has run the install.
C16_Witness ==
    /\ Ended(1, "edit") /\ P(1).exit = 0 /\ InTrace(P(1), "rename")
    /\ P(1).store0["ci"].exists /\ InTrace(P(1), "gpg_d")
    /\ P(1).edited = P(1).contents /\ P(1).edited # <<>>

\* What C17 says of every edit run, but for the fate of the source file.
CopyFallback(p) ==
    LET r == P(p)
    IN  /\ InTrace(r, "write_store") => InTrace(r, "read_enc") /\ r.byteArr = Encrypt(r.edited)
        /\ (InTrace(r, "remove_enc") /\ r.pc = "done")
              => /\ r.exit = 0 /\ ~Printed(r, "stderr", "ReplaceFailed")
                 /\ store[r.group] = FileOf(r.byteArr)
        /\ (InTrace(r, "remove_store") /\ r.pc = "done")
              => r.exit = 1 /\ Printed(r, "stderr", "ReplaceFailed")
        /\ (r.pc = "done" /\ Printed(r, "stderr", "ReplaceFailed"))
              => InTrace(r, "read_enc") /\ ~InTrace(r, "remove_enc")
        /\ (r.pc = "done" /\ Installing(r) /\ ~Printed(r, "stderr", "ReplaceFailed"))
              => r.exit = 0 /\ store[r.group] = FileOf(Encrypt(r.edited))

\* C17 as stated: after a failed rename the ciphertext is read and written
\* to the store path; when the write succeeded the source is deleted and the
\* store holds exactly the ciphertext; when it failed the deletion of the
\* destination was tried and an error returned; copyFile returns an error
\* only when the rename and the copy both failed.
C17_CopyFallbackAsStated ==
    \A p \in Procs : Ran(p, "edit") =>
        /\ CopyFallback(p)
        /\ (InTrace(P(p), "remove_enc") /\ P(p).pc = "done") => ~tmpEnc[p].exists

\* C17 amended: the same, but of the source only that its deletion was
\* tried after the successful write: os.Remove may fail, which copyFile
\* ignores, and the source then stays.
C17_CopyFallback ==
    \A p \in Procs : Ran(p, "edit") => CopyFallback(p)

\* C17 witness: an edit over an existing store was installed by the copy
\* after a failed rename, and the source is gone.
C17_Witness ==
    /\ Ended(1, "edit") /\ P(1).exit = 0
    /\ InTrace(P(1), "read_enc") /\ InTrace(P(1), "remove_enc")
    /\ P(1).store0["ci"].exists /\ store["ci"] # P(1).store0["ci"]
    /\ store["ci"] = FileOf(Encrypt(P(1).edited)) /\ ~tmpEnc[1].exists

\* C18: nothing protects the store against two edits of one group at the
\* same time: an install that succeeds puts its own ciphertext at the store
\* path over whatever is there, also over what another edit installed since
\* this one decrypted, and reports nothing.
C18_InstallOverwrites ==
    [][\A p \in Procs :
          (proc[p].pc \in {"copyFile", "writeFile"} /\ proc'[p].pc = "done"
              /\ proc'[p].exit = 0)
          => /\ store'[proc[p].group] = FileOf(Encrypt(proc[p].edited))
             /\ proc'[p].stderr = proc[p].stderr
             /\ proc'[p].stdout = proc[p].stdout]_vars

\* C18 witness: both edits decrypted the same original store, both ended in
\* success without a message, the first installed one text and the second
\* another, and the store holds the second's text only.
C18_Witness ==
    /\ Ended(1, "edit") /\ Ended(2, "edit")
    /\ P(1).exit = 0 /\ P(2).exit = 0
    /\ P(1).stderr = <<>> /\ P(2).stderr = <<>> /\ P(1).stdout = <<>> /\ P(2).stdout = <<>>
    /\ P(1).store0["ci"] = FileOf(Encrypt(<<"A", EQ, "1", LF, "B", EQ, "2">>))
    /\ InTrace(P(1), "gpg_d") /\ InTrace(P(2), "gpg_d")
    /\ P(1).contents = <<"A", EQ, "1", LF, "B", EQ, "2">>
    /\ P(2).contents = P(1).contents
    /\ P(1).edited = <<"B", EQ, NUL>>
    /\ P(2).edited = <<EQ, "x", LF, "C", EQ, "y", EQ, "z">>
    /\ store["ci"] = FileOf(Encrypt(P(2).edited))

\* C19: with pipe = false system() does not deadlock with its child:
\* whatever the child writes to stdout and stderr, in whatever order, and
\* however small the pipes, as long as system() has not returned one of the
\* two can take a step, and when it returns it has all of the child's stdout
\* and stderr.
C19_SystemReturns ==
    (sysCall.pc # "off" /\ ~sysCall.pipe) =>
        /\ sysCall.pc = "returned" \/ ENABLED NextPipe
        /\ (sysCall.pc = "returned" /\ ~sysCall.err)
              => /\ sysCall.stdout = Count(child.all, "out")
                 /\ sysCall.stderr = Count(child.all, "err")

\* How many plaintext-leak warnings a process has printed.
NWarn(r) == Cardinality({i \in 1..Len(r.stderr) : r.stderr[i].msg = "CleanupFailed"})

\* C20: the plaintext-leak warning is printed only by a cleanup attempt that
\* leaves the plaintext ephemeral file on disk; the second cleanup call, on
\* the install-failure path after the first one deleted the file, prints none.
C20_WarningOnlyWhenLeaked ==
    [][\A p \in Procs : NWarn(proc'[p]) > NWarn(proc[p]) => tmp'[p].exists]_vars

====
